---- MODULE Spec2Model ----
(***************************************************************************)
(* A model of the Python binding layer of the HoraeDB client               *)
(* (src/src/model.rs, src/src/client.rs): the value constructors, the      *)
(* point builder, the write request, the query response with its row and   *)
(* column views and iterators, the client builder and the client calls.    *)
(***************************************************************************)
EXTENDS Integers, Sequences, FiniteSets, TLC

VARIABLES
    call,           \* the last call made from Python: object, method, argument, outcome
    point_builder,  \* the PointBuilder object: [rust_builder]
    builder,        \* the client Builder object: [rust_builder]
    write_request,  \* the WriteRequest object: [rust_request]
    client,         \* the Client object: [rust_client]
    futures,        \* the awaitables Client.write and Client.sql_query returned
    native_log,     \* the calls the native client has received, in order
    response,       \* the SqlQueryResponse object: [rust_rows, affected_rows]
    row,            \* the Row the caller holds, if any
    row_iters,      \* the RowIter objects the caller holds, by handle
    row_yields,     \* what each of them has returned from __next__ so far
    col_iters,      \* the ColumnIter objects the caller holds, by handle
    col_yields      \* the Row each of them came from and what it has returned so far

builderVars == <<point_builder, builder>>
writeVars == <<write_request>>
clientVars == <<client, futures, native_log>>
rowVars == <<row, row_iters, row_yields>>
colVars == <<col_iters, col_yields>>
queryVars == <<response, rowVars, colVars>>
vars == <<call, builderVars, writeVars, clientVars, queryVars>>

(***************************************************************************)
(* Option<T>: None, or Some(x).  Option::take leaves None behind and       *)
(* Option::unwrap panics on None; a panic inside a #[pymethods] method     *)
(* reaches the caller as a PanicException.                                 *)
(***************************************************************************)
None == [some |-> FALSE]
Some(x) == [some |-> TRUE, v |-> x]

Unit == <<>>
Returned(val) == [ok |-> TRUE, val |-> val]
Raised(exc, msg) == [ok |-> FALSE, exc |-> exc, msg |-> msg]
Panic == Raised("PanicException", "called Option::unwrap() on a None value")

(***************************************************************************)
(* Argument extraction at the Python boundary.  A #[pymethods] parameter   *)
(* of a fixed-width integer type accepts a Python int only inside that     *)
(* type's range; outside it the call raises OverflowError before the       *)
(* method body runs.  The 32 and 64 bit upper (and signed lower) limits    *)
(* lie beyond every integer the model draws, so only the sign is checked   *)
(* for those widths.                                                       *)
(***************************************************************************)
Fits(ty, x) ==
    CASE ty = "u8"  -> 0 <= x /\ x <= 255
      [] ty = "u16" -> 0 <= x /\ x <= 65535
      [] ty = "u32" -> 0 <= x
      [] ty = "u64" -> 0 <= x
      [] ty = "i8"  -> -128 <= x /\ x <= 127
      [] ty = "i16" -> -32768 <= x /\ x <= 32767
      [] ty = "i32" -> TRUE
      [] ty = "i64" -> TRUE

\* Python floats with integral values; f32 keeps 24 bits of mantissa, so the
\* cast `as f32` rounds an odd integer in [2^24, 2^25) to the neighbour whose
\* half is even (round to nearest, ties to even).
F32Round(x) ==
    IF x < 16777216 \/ x % 2 = 0 THEN x
    ELSE IF ((x - 1) \div 2) % 2 = 0 THEN x - 1 ELSE x + 1

PyInts == {-32769, -32768, -129, -128, -1, 0, 1, 127, 128, 255, 256,
           32767, 32768, 65535, 65536}
PyFloats == {0, 1, 16777216, 16777217, 16777219}
PyStrs == {"", "a", "tsid"}
PyByteLists == {<<>>, <<0, 255>>, <<1, 256>>}

(***************************************************************************)
(* Value { raw_val } and the ValueBuilder constructors.  Each operator is  *)
(* the constructor's body: the RustValue variant it builds and the payload.*)
(***************************************************************************)
Value(tag, payload) == [raw_val |-> [tag |-> tag, v |-> payload]]

\* RustValue::Null carries no payload; the v field of the record is 0 for it.
null == Value("Null", 0)
timestamp(timestamp_mills) == Value("Timestamp", timestamp_mills)
double(val) == Value("Double", val)
float(val) == Value("Float", val)
string(val) == Value("String", val)
varbinary(val) == Value("Varbinary", val)
uint64(val) == Value("UInt64", val)
uint32(val) == Value("UInt32", val)
uint16(val) == Value("Int16", val)
uint8(val) == Value("UInt8", val)
int64(val) == Value("Int64", val)
int32(val) == Value("Int32", val)
int16(val) == Value("UInt16", val)
int8(val) == Value("Int8", val)
bool(val) == Value("Boolean", val)

\* The call as Python sees it: the argument is extracted as the parameter's
\* type, then the body runs.
Overflow == Raised("OverflowError", "out of range integral type conversion attempted")
IntCall(ty, x, made) == IF Fits(ty, x) THEN Returned(made) ELSE Overflow

Call(obj, op, arg, ret) == [obj |-> obj, op |-> op, arg |-> arg, ret |-> ret]
NoCall == Call("", "", Unit, Returned(Unit))

ValueCall(c, x, ret) == Call("ValueBuilder", c, x, ret)

ValueBuilder_null ==
    /\ call' = ValueCall("null", Unit, Returned(null))
    /\ UNCHANGED <<builderVars, writeVars, clientVars, queryVars>>
ValueBuilder_timestamp ==
    \E x \in PyInts :
        /\ call' = ValueCall("timestamp", x, IntCall("i64", x, timestamp(x)))
        /\ UNCHANGED <<builderVars, writeVars, clientVars, queryVars>>
ValueBuilder_double ==
    \E x \in PyFloats :
        /\ call' = ValueCall("double", x, Returned(double(x)))
        /\ UNCHANGED <<builderVars, writeVars, clientVars, queryVars>>
ValueBuilder_float ==
    \E x \in PyFloats :
        /\ call' = ValueCall("float", x, Returned(float(F32Round(x))))
        /\ UNCHANGED <<builderVars, writeVars, clientVars, queryVars>>
ValueBuilder_string ==
    \E x \in PyStrs :
        /\ call' = ValueCall("string", x, Returned(string(x)))
        /\ UNCHANGED <<builderVars, writeVars, clientVars, queryVars>>
ValueBuilder_varbinary ==
    \E x \in PyByteLists :
        /\ call' = ValueCall("varbinary", x,
              IF \A i \in 1..Len(x) : Fits("u8", x[i])
              THEN Returned(varbinary(x)) ELSE Overflow)
        /\ UNCHANGED <<builderVars, writeVars, clientVars, queryVars>>
ValueBuilder_uint64 ==
    \E x \in PyInts :
        /\ call' = ValueCall("uint64", x, IntCall("u64", x, uint64(x)))
        /\ UNCHANGED <<builderVars, writeVars, clientVars, queryVars>>
ValueBuilder_uint32 ==
    \E x \in PyInts :
        /\ call' = ValueCall("uint32", x, IntCall("u32", x, uint32(x)))
        /\ UNCHANGED <<builderVars, writeVars, clientVars, queryVars>>
ValueBuilder_uint16 ==
    \E x \in PyInts :
        /\ call' = ValueCall("uint16", x, IntCall("i16", x, uint16(x)))
        /\ UNCHANGED <<builderVars, writeVars, clientVars, queryVars>>
ValueBuilder_uint8 ==
    \E x \in PyInts :
        /\ call' = ValueCall("uint8", x, IntCall("u8", x, uint8(x)))
        /\ UNCHANGED <<builderVars, writeVars, clientVars, queryVars>>
ValueBuilder_int64 ==
    \E x \in PyInts :
        /\ call' = ValueCall("int64", x, IntCall("i64", x, int64(x)))
        /\ UNCHANGED <<builderVars, writeVars, clientVars, queryVars>>
ValueBuilder_int32 ==
    \E x \in PyInts :
        /\ call' = ValueCall("int32", x, IntCall("i32", x, int32(x)))
        /\ UNCHANGED <<builderVars, writeVars, clientVars, queryVars>>
ValueBuilder_int16 ==
    \E x \in PyInts :
        /\ call' = ValueCall("int16", x, IntCall("u16", x, int16(x)))
        /\ UNCHANGED <<builderVars, writeVars, clientVars, queryVars>>
ValueBuilder_int8 ==
    \E x \in PyInts :
        /\ call' = ValueCall("int8", x, IntCall("i8", x, int8(x)))
        /\ UNCHANGED <<builderVars, writeVars, clientVars, queryVars>>
ValueBuilder_bool ==
    \E x \in BOOLEAN :
        /\ call' = ValueCall("bool", x, Returned(bool(x)))
        /\ UNCHANGED <<builderVars, writeVars, clientVars, queryVars>>

NextValue ==
    \/ ValueBuilder_null
    \/ ValueBuilder_timestamp
    \/ ValueBuilder_double
    \/ ValueBuilder_float
    \/ ValueBuilder_string
    \/ ValueBuilder_varbinary
    \/ ValueBuilder_uint64
    \/ ValueBuilder_uint32
    \/ ValueBuilder_uint16
    \/ ValueBuilder_uint8
    \/ ValueBuilder_int64
    \/ ValueBuilder_int32
    \/ ValueBuilder_int16
    \/ ValueBuilder_int8
    \/ ValueBuilder_bool

(***************************************************************************)
(* The native point builder the wrapper drives (horaedb_client's           *)
(* PointBuilder): each setter consumes the builder and returns it, tag and *)
(* field latch a flag when the name is reserved, build validates.          *)
(***************************************************************************)
ReservedNames == {"tsid", "timestamp"}
is_reserved_column_name(name) == name \in ReservedNames

RustPointBuilder_new(table) ==
    [table |-> Some(table), timestamp |-> None, tags |-> <<>>, fields |-> <<>>,
     contains_reserved_column_name |-> FALSE]
RustPointBuilder_table(b, table) == [b EXCEPT !.table = Some(table)]
RustPointBuilder_timestamp(b, ts) == [b EXCEPT !.timestamp = Some(ts)]
RustPointBuilder_tag(b, name, val) ==
    [b EXCEPT !.tags = Append(@, <<name, val>>),
              !.contains_reserved_column_name = @ \/ is_reserved_column_name(name)]
RustPointBuilder_field(b, name, val) ==
    [b EXCEPT !.fields = Append(@, <<name, val>>),
              !.contains_reserved_column_name = @ \/ is_reserved_column_name(name)]
RustPointBuilder_build(b) ==
    IF b.contains_reserved_column_name
    THEN [ok |-> FALSE, err |-> "Tag or field name reserved column name"]
    ELSE IF b.fields = <<>>
    THEN [ok |-> FALSE, err |-> "Fields should not be empty"]
    ELSE IF ~b.table.some
    THEN [ok |-> FALSE, err |-> "Table must be set"]
    ELSE IF ~b.timestamp.some
    THEN [ok |-> FALSE, err |-> "Timestamp must be set"]
    ELSE [ok |-> TRUE,
          val |-> [table |-> b.table.v, timestamp |-> b.timestamp.v,
                   tags |-> b.tags, fields |-> b.fields]]

(***************************************************************************)
(* PointBuilder { rust_builder: Option<RustPointBuilder> }.  Each method   *)
(* is an operator from the object to the object after the call and the     *)
(* call's outcome.  Every method starts with rust_builder.take().unwrap(). *)
(***************************************************************************)
Point(rust_point) == [rust_point |-> rust_point]
After(self, ret) == [self |-> self, ret |-> ret]

PointBuilder_new(table) == [rust_builder |-> Some(RustPointBuilder_new(table))]

set_table(self, table) ==
    IF ~self.rust_builder.some THEN After([rust_builder |-> None], Panic)
    ELSE After([rust_builder |-> Some(RustPointBuilder_table(self.rust_builder.v, table))],
               Returned(Unit))

set_timestamp(self, ts) ==
    IF ~self.rust_builder.some THEN After([rust_builder |-> None], Panic)
    ELSE After([rust_builder |-> Some(RustPointBuilder_timestamp(self.rust_builder.v, ts))],
               Returned(Unit))

set_tag(self, name, val) ==
    IF ~self.rust_builder.some THEN After([rust_builder |-> None], Panic)
    ELSE After([rust_builder |->
                   Some(RustPointBuilder_tag(self.rust_builder.v, name, val.raw_val))],
               Returned(Unit))

set_field(self, name, val) ==
    IF ~self.rust_builder.some THEN After([rust_builder |-> None], Panic)
    ELSE After([rust_builder |->
                   Some(RustPointBuilder_field(self.rust_builder.v, name, val.raw_val))],
               Returned(Unit))

\* build takes the native builder and never puts one back: the Option is None
\* after the call, whether the native build succeeded or not.
PointBuilder_build(self) ==
    IF ~self.rust_builder.some THEN After([rust_builder |-> None], Panic)
    ELSE LET r == RustPointBuilder_build(self.rust_builder.v)
         IN  After([rust_builder |-> None],
                   IF r.ok THEN Returned(Point(r.val)) ELSE Raised("TypeError", r.err))

MaxPairs == 2
Tables == {"cpu", "mem"}
Timestamps == {0, 1700000000}
Names == {"host", "tsid"}
PointValues == {null, double(1)}

Pairs(self) ==
    IF self.rust_builder.some
    THEN Len(self.rust_builder.v.tags) + Len(self.rust_builder.v.fields)
    ELSE 0

PointBuilder_New ==
    \E table \in Tables :
        /\ point_builder' = PointBuilder_new(table)
        /\ call' = Call("PointBuilder", "new", table, Returned(Unit))
        /\ UNCHANGED <<builder, writeVars, clientVars, queryVars>>
PointBuilder_SetTable ==
    \E table \in Tables :
        /\ point_builder' = set_table(point_builder, table).self
        /\ call' = Call("PointBuilder", "set_table", table,
                        set_table(point_builder, table).ret)
        /\ UNCHANGED <<builder, writeVars, clientVars, queryVars>>
PointBuilder_SetTimestamp ==
    \E ts \in Timestamps :
        /\ point_builder' = set_timestamp(point_builder, ts).self
        /\ call' = Call("PointBuilder", "set_timestamp", ts,
                        set_timestamp(point_builder, ts).ret)
        /\ UNCHANGED <<builder, writeVars, clientVars, queryVars>>
PointBuilder_SetTag ==
    /\ Pairs(point_builder) < MaxPairs
    /\ \E name \in Names, val \in PointValues :
        /\ point_builder' = set_tag(point_builder, name, val).self
        /\ call' = Call("PointBuilder", "set_tag", <<name, val>>,
                        set_tag(point_builder, name, val).ret)
    /\ UNCHANGED <<builder, writeVars, clientVars, queryVars>>
PointBuilder_SetField ==
    /\ Pairs(point_builder) < MaxPairs
    /\ \E name \in Names, val \in PointValues :
        /\ point_builder' = set_field(point_builder, name, val).self
        /\ call' = Call("PointBuilder", "set_field", <<name, val>>,
                        set_field(point_builder, name, val).ret)
    /\ UNCHANGED <<builder, writeVars, clientVars, queryVars>>
PointBuilder_Build ==
    /\ point_builder' = PointBuilder_build(point_builder).self
    /\ call' = Call("PointBuilder", "build", Unit, PointBuilder_build(point_builder).ret)
    /\ UNCHANGED <<builder, writeVars, clientVars, queryVars>>

NextPoint ==
    \/ PointBuilder_New
    \/ PointBuilder_SetTable
    \/ PointBuilder_SetTimestamp
    \/ PointBuilder_SetTag
    \/ PointBuilder_SetField
    \/ PointBuilder_Build

(***************************************************************************)
(* RpcConfig and its conversion to the native RustRpcConfig.  A Duration   *)
(* is whole seconds plus nanoseconds.                                      *)
(***************************************************************************)
Duration_from_millis(ms) == [secs |-> ms \div 1000, nanos |-> (ms % 1000) * 1000000]
Duration_as_millis(d) == d.secs * 1000 + d.nanos \div 1000000

\* The conversion with a thread count set for every thread_num from 0 up.
RustRpcConfig_from_nonnegative(config) ==
    [thread_num |-> IF config.thread_num >= 0 THEN Some(config.thread_num) ELSE None,
     max_send_msg_len |-> config.max_send_msg_len,
     max_recv_msg_len |-> config.max_recv_msg_len,
     keep_alive_interval |-> Duration_from_millis(config.keep_alive_interval_ms),
     keep_alive_timeout |-> Duration_from_millis(config.keep_alive_timeout_ms),
     keep_alive_while_idle |-> config.keep_alive_while_idle,
     default_write_timeout |-> Duration_from_millis(config.default_write_timeout_ms),
     default_sql_query_timeout |->
         Duration_from_millis(config.default_sql_query_timeout_ms),
     connect_timeout |-> Duration_from_millis(config.connect_timeout_ms)]

\* impl From<RpcConfig> for RustRpcConfig
RustRpcConfig_from(config) ==
    [thread_num |-> IF config.thread_num > 0 THEN Some(config.thread_num) ELSE None,
     max_send_msg_len |-> config.max_send_msg_len,
     max_recv_msg_len |-> config.max_recv_msg_len,
     keep_alive_interval |-> Duration_from_millis(config.keep_alive_interval_ms),
     keep_alive_timeout |-> Duration_from_millis(config.keep_alive_timeout_ms),
     keep_alive_while_idle |-> config.keep_alive_while_idle,
     default_write_timeout |-> Duration_from_millis(config.default_write_timeout_ms),
     default_sql_query_timeout |->
         Duration_from_millis(config.default_sql_query_timeout_ms),
     connect_timeout |-> Duration_from_millis(config.connect_timeout_ms)]

\* impl From<RustRpcConfig> for RpcConfig
RpcConfig_from(config) ==
    [thread_num |-> IF config.thread_num.some THEN config.thread_num.v ELSE 0,
     max_send_msg_len |-> config.max_send_msg_len,
     max_recv_msg_len |-> config.max_recv_msg_len,
     keep_alive_interval_ms |-> Duration_as_millis(config.keep_alive_interval),
     keep_alive_timeout_ms |-> Duration_as_millis(config.keep_alive_timeout),
     keep_alive_while_idle |-> config.keep_alive_while_idle,
     default_write_timeout_ms |-> Duration_as_millis(config.default_write_timeout),
     default_sql_query_timeout_ms |->
         Duration_as_millis(config.default_sql_query_timeout),
     connect_timeout_ms |-> Duration_as_millis(config.connect_timeout)]

\* RustRpcConfig::default() of the native client.
RustRpcConfig_default ==
    [thread_num |-> None,
     max_send_msg_len |-> 20971520,
     max_recv_msg_len |-> 1073741824,
     keep_alive_interval |-> [secs |-> 600, nanos |-> 0],
     keep_alive_timeout |-> [secs |-> 3, nanos |-> 0],
     keep_alive_while_idle |-> TRUE,
     default_write_timeout |-> [secs |-> 5, nanos |-> 0],
     default_sql_query_timeout |-> [secs |-> 60, nanos |-> 0],
     connect_timeout |-> [secs |-> 3, nanos |-> 0]]

\* RpcConfig::new(), then the attributes Python sets on it.
RpcConfig_new == RpcConfig_from(RustRpcConfig_default)

ThreadNums == {-1, 0, 4}
Millis == {0, 1500}
RpcConfigs ==
    {[RpcConfig_new EXCEPT !.thread_num = t, !.connect_timeout_ms = ms] :
        t \in ThreadNums, ms \in Millis}

(***************************************************************************)
(* The client Builder { rust_builder: Option<RustBuilder> } over the       *)
(* native builder, which records what its setters were given.              *)
(***************************************************************************)
RustBuilder_new(endpoint, rust_mode) ==
    [endpoint |-> endpoint, mode |-> rust_mode, rpc_config |-> RustRpcConfig_default,
     default_database |-> None, authorization |-> None]
RustBuilder_rpc_config(b, conf) == [b EXCEPT !.rpc_config = conf]
RustBuilder_default_database(b, db) == [b EXCEPT !.default_database = Some(db)]
RustBuilder_authorization(b, auth) == [b EXCEPT !.authorization = Some(auth)]
RustBuilder_build(b) == [built_from |-> b]

Client(rust_client) == [rust_client |-> rust_client]

Builder_new(endpoint, mode) ==
    [rust_builder |->
        Some(RustBuilder_new(endpoint,
                             IF mode = "Direct" THEN "RustDirect" ELSE "RustProxy"))]

set_rpc_config(self, conf) ==
    IF ~self.rust_builder.some THEN After([rust_builder |-> None], Panic)
    ELSE After([rust_builder |->
                   Some(RustBuilder_rpc_config(self.rust_builder.v,
                                               RustRpcConfig_from(conf)))],
               Returned(Unit))

set_default_database(self, db) ==
    IF ~self.rust_builder.some THEN After([rust_builder |-> None], Panic)
    ELSE After([rust_builder |->
                   Some(RustBuilder_default_database(self.rust_builder.v, db))],
               Returned(Unit))

set_authorization(self, auth) ==
    IF ~self.rust_builder.some THEN After([rust_builder |-> None], Panic)
    ELSE After([rust_builder |->
                   Some(RustBuilder_authorization(self.rust_builder.v,
                            [username |-> auth.username, password |-> auth.password]))],
               Returned(Unit))

\* As in PointBuilder.build, the native builder is taken and not put back.
Builder_build(self) ==
    IF ~self.rust_builder.some THEN After([rust_builder |-> None], Panic)
    ELSE After([rust_builder |-> None],
               Returned(Client(RustBuilder_build(self.rust_builder.v))))

Endpoints == {"127.0.0.1:8831"}
Modes == {"Direct", "Proxy"}
Databases == {"public"}
Authorizations == {[username |-> "root", password |-> ""]}

Builder_New ==
    \E endpoint \in Endpoints, mode \in Modes :
        /\ builder' = Builder_new(endpoint, mode)
        /\ call' = Call("Builder", "new", <<endpoint, mode>>, Returned(Unit))
        /\ UNCHANGED <<point_builder, writeVars, clientVars, queryVars>>
Builder_SetRpcConfig ==
    \E conf \in RpcConfigs :
        /\ builder' = set_rpc_config(builder, conf).self
        /\ call' = Call("Builder", "set_rpc_config", conf,
                        set_rpc_config(builder, conf).ret)
        /\ UNCHANGED <<point_builder, writeVars, clientVars, queryVars>>
Builder_SetDefaultDatabase ==
    \E db \in Databases :
        /\ builder' = set_default_database(builder, db).self
        /\ call' = Call("Builder", "set_default_database", db,
                        set_default_database(builder, db).ret)
        /\ UNCHANGED <<point_builder, writeVars, clientVars, queryVars>>
Builder_SetAuthorization ==
    \E auth \in Authorizations :
        /\ builder' = set_authorization(builder, auth).self
        /\ call' = Call("Builder", "set_authorization", auth,
                        set_authorization(builder, auth).ret)
        /\ UNCHANGED <<point_builder, writeVars, clientVars, queryVars>>
Builder_Build ==
    /\ builder' = Builder_build(builder).self
    /\ call' = Call("Builder", "build", Unit, Builder_build(builder).ret)
    /\ UNCHANGED <<point_builder, writeVars, clientVars, queryVars>>

NextBuilder ==
    \/ Builder_New
    \/ Builder_SetRpcConfig
    \/ Builder_SetDefaultDatabase
    \/ Builder_SetAuthorization
    \/ Builder_Build

(***************************************************************************)
(* WriteRequest { rust_request } over the native write request, which      *)
(* appends each point it is given.                                         *)
(***************************************************************************)
RustWriteRequest_default == <<>>
RustWriteRequest_add_point(req, rust_point) == Append(req, rust_point)

WriteRequest_new == [rust_request |-> RustWriteRequest_default]

add_point(self, point) ==
    [rust_request |-> RustWriteRequest_add_point(self.rust_request, point.rust_point)]

\* add_points that walks the list from its end.
add_points_reversed(self, points) ==
    LET loop[i \in 0..Len(points)] ==
            IF i = 0 THEN self
            ELSE add_point(loop[i - 1], points[Len(points) + 1 - i])
    IN  loop[Len(points)]

\* for point in points { self.add_point(point); }
add_points(self, points) ==
    LET loop[i \in 0..Len(points)] ==
            IF i = 0 THEN self ELSE add_point(loop[i - 1], points[i])
    IN  loop[Len(points)]

MaxPoints == 4
MaxBatch == 2

\* Points as PointBuilder builds them.
BuiltPoint(table, ts, val) ==
    PointBuilder_build(
        set_field(set_timestamp(PointBuilder_new(table), ts).self, "usage", val).self
    ).ret.val
Points == {BuiltPoint("cpu", 0, double(1)), BuiltPoint("cpu", 1700000000, null),
           BuiltPoint("mem", 0, double(1))}
PointLists == UNION {[1..n -> Points] : n \in 0..MaxBatch}

WriteRequest_New ==
    /\ write_request' = WriteRequest_new
    /\ call' = Call("WriteRequest", "new", Unit, Returned(Unit))
    /\ UNCHANGED <<builderVars, clientVars, queryVars>>
WriteRequest_AddPoint ==
    /\ Len(write_request.rust_request) < MaxPoints
    /\ \E point \in Points :
        /\ write_request' = add_point(write_request, point)
        /\ call' = Call("WriteRequest", "add_point", point, Returned(Unit))
    /\ UNCHANGED <<builderVars, clientVars, queryVars>>
WriteRequest_AddPoints ==
    \E points \in PointLists :
        /\ Len(write_request.rust_request) + Len(points) <= MaxPoints
        /\ write_request' = add_points(write_request, points)
        /\ call' = Call("WriteRequest", "add_points", points, Returned(Unit))
        /\ UNCHANGED <<builderVars, clientVars, queryVars>>

NextWrite ==
    \/ WriteRequest_New
    \/ WriteRequest_AddPoint
    \/ WriteRequest_AddPoints

(***************************************************************************)
(* The rows a native query response carries: each RustRow is a vector of   *)
(* columns, each column a name and a RustValue.  The datum at row r,       *)
(* column c (from 0) is different at every position.                       *)
(***************************************************************************)
MaxRows == 2
MaxCols == 2
ColumnNames == {"a", "A"}
Schemas == UNION {[1..n -> ColumnNames] : n \in 0..MaxCols}
CellTags == <<"Int32", "Null", "UInt16", "Timestamp", "Int16">>

Cell(r, c) ==
    LET tag == CellTags[((r + c) % Len(CellTags)) + 1]
    IN  [tag |-> tag, v |-> IF tag = "Null" THEN 0 ELSE 10 * r + c + 1]
RustRow(schema, r) ==
    [columns |-> [c \in 1..Len(schema) |-> [name |-> schema[c], value |-> Cell(r, c - 1)]]]
RustRows(schema, n) == [r \in 1..n |-> RustRow(schema, r - 1)]

NativeQueryResponses ==
    {[rows |-> RustRows(schema, n), affected_rows |-> 0] :
        schema \in Schemas, n \in 0..MaxRows}
    \cup {[rows |-> <<>>, affected_rows |-> 3]}

\* impl From<RustSqlQueryResponse> for SqlQueryResponse
SqlQueryResponse_from(query_resp) ==
    [rust_rows |-> query_resp.rows, affected_rows |-> query_resp.affected_rows]

\* impl From<RustWriteResponse> for WriteResponse, and its accessors
WriteResponse_from(resp) == [rust_response |-> resp]
get_success(self) == self.rust_response.success
get_failed(self) == self.rust_response.failed

(***************************************************************************)
(* Client { rust_client }.  write and sql_query hand Python an awaitable;  *)
(* the async block behind it runs later on the runtime.  The native client *)
(* is outside this code: what it answers to its n-th invocation by one     *)
(* block is an input, answers[n].                                          *)
(***************************************************************************)
\* impl From<RpcContext> for RustRpcContext
RustRpcContext_from(ctx) ==
    [database |-> ctx.database,
     timeout |-> IF ctx.timeout_ms.some
                 THEN Some(Duration_from_millis(ctx.timeout_ms.v)) ELSE None]

\* format!("{err:?}") of a native error: the variant and its quoted message.
Debug(err) == err.variant \o "(\"" \o err.msg \o "\")"
to_py_exception(err) == Raised("Exception", Debug(err))

Ok(x) == [ok |-> TRUE, val |-> x]
Err(e) == [ok |-> FALSE, err |-> e]
Invocation(rust_client, op, rust_ctx, rust_req, answer) ==
    [client |-> rust_client, op |-> op, ctx |-> rust_ctx, req |-> rust_req,
     answer |-> answer]

\* A write block that invokes the native client again when it fails.
write_block_retries(rust_client, ctx, req, answers) ==
    LET rust_req == req.rust_request
        rust_ctx == RustRpcContext_from(ctx)
        first == answers[1]
        rust_resp == IF first.ok THEN first ELSE answers[2]
    IN  [invoked |->
             IF first.ok
             THEN <<Invocation(rust_client, "write", rust_ctx, rust_req, first)>>
             ELSE <<Invocation(rust_client, "write", rust_ctx, rust_req, first),
                    Invocation(rust_client, "write", rust_ctx, rust_req, rust_resp)>>,
         result |-> IF rust_resp.ok THEN Returned(WriteResponse_from(rust_resp.val))
                    ELSE to_py_exception(rust_resp.err)]

\* The async block of Client::write: what it invokes and what it completes with.
write_block(rust_client, ctx, req, answers) ==
    LET rust_req == req.rust_request
        rust_ctx == RustRpcContext_from(ctx)
        rust_resp == answers[1]
    IN  [invoked |-> <<Invocation(rust_client, "write", rust_ctx, rust_req, rust_resp)>>,
         result |-> IF rust_resp.ok THEN Returned(WriteResponse_from(rust_resp.val))
                    ELSE to_py_exception(rust_resp.err)]

\* The async block of Client::sql_query.
sql_query_block(rust_client, ctx, req, answers) ==
    LET rust_req == req.rust_req
        rust_ctx == RustRpcContext_from(ctx)
        query_resp == answers[1]
    IN  [invoked |->
             <<Invocation(rust_client, "sql_query", rust_ctx, rust_req, query_resp)>>,
         result |-> IF query_resp.ok THEN Returned(SqlQueryResponse_from(query_resp.val))
                    ELSE to_py_exception(query_resp.err)]

SqlQueryRequest_new(tables, sql) == [rust_req |-> [tables |-> tables, sql |-> sql]]

MaxCalls == 2
NativeAnswers == 2

RpcContexts ==
    {[database |-> None, timeout_ms |-> None],
     [database |-> Some("public"), timeout_ms |-> Some(1500)]}
WriteRequests == {add_points(WriteRequest_new, <<BuiltPoint("cpu", 0, double(1))>>)}
SqlQueryRequests == {SqlQueryRequest_new(<<"cpu">>, "select * from cpu")}
NativeErrors ==
    {[variant |-> "Unknown", msg |-> "connection refused"],
     [variant |-> "Client", msg |-> "timeout"]}
WriteAnswers ==
    {Ok([success |-> 3, failed |-> 1]), Ok([success |-> 0, failed |-> 0])}
    \cup {Err(e) : e \in NativeErrors}
SqlQueryAnswers ==
    {Ok([rows |-> RustRows(<<"a", "A">>, n), affected_rows |-> 0]) : n \in {0, MaxRows}}
    \cup {Ok([rows |-> <<>>, affected_rows |-> 3])}
    \cup {Err(e) : e \in NativeErrors}

Pending(op, ctx, req) ==
    [op |-> op, ctx |-> ctx, req |-> req, done |-> FALSE, result |-> Returned(Unit)]
Logged(invoked, fut) == [k \in 1..Len(invoked) |-> [fut |-> fut, call |-> invoked[k]]]

Client_Write ==
    /\ Len(futures) < MaxCalls
    /\ \E ctx \in RpcContexts, req \in WriteRequests :
        /\ futures' = Append(futures, Pending("write", ctx, req))
        /\ call' = Call("Client", "write", <<ctx, req>>, Returned(Len(futures) + 1))
    /\ UNCHANGED <<builderVars, writeVars, client, native_log, queryVars>>
Client_SqlQuery ==
    /\ Len(futures) < MaxCalls
    /\ \E ctx \in RpcContexts, req \in SqlQueryRequests :
        /\ futures' = Append(futures, Pending("sql_query", ctx, req))
        /\ call' = Call("Client", "sql_query", <<ctx, req>>, Returned(Len(futures) + 1))
    /\ UNCHANGED <<builderVars, writeVars, client, native_log, queryVars>>
Run_Write ==
    \E i \in DOMAIN futures, answers \in [1..NativeAnswers -> WriteAnswers] :
        /\ futures[i].op = "write" /\ ~futures[i].done
        /\ LET r == write_block(client.rust_client, futures[i].ctx, futures[i].req, answers)
           IN  /\ futures' = [futures EXCEPT ![i].done = TRUE, ![i].result = r.result]
               /\ native_log' = native_log \o Logged(r.invoked, i)
        /\ UNCHANGED <<call, builderVars, writeVars, client, queryVars>>
Run_SqlQuery ==
    \E i \in DOMAIN futures, answers \in [1..NativeAnswers -> SqlQueryAnswers] :
        /\ futures[i].op = "sql_query" /\ ~futures[i].done
        /\ LET r == sql_query_block(client.rust_client, futures[i].ctx, futures[i].req,
                                    answers)
           IN  /\ futures' = [futures EXCEPT ![i].done = TRUE, ![i].result = r.result]
               /\ native_log' = native_log \o Logged(r.invoked, i)
        /\ UNCHANGED <<call, builderVars, writeVars, client, queryVars>>

NextClient ==
    \/ Client_Write
    \/ Client_SqlQuery
    \/ Run_Write
    \/ Run_SqlQuery

(***************************************************************************)
(* The views over a query response.  Each holds a clone of the response's  *)
(* Arc<Vec<RustRow>>, the same rows, and its own position.  Rust indexes   *)
(* from 0 and sequences from 1: vec[i] is At(vec, i).                      *)
(***************************************************************************)
At(vec, i) == vec[i + 1]

Row(row_idx, rust_rows) == [row_idx |-> row_idx, rust_rows |-> rust_rows]
Column(row_idx, col_idx, rust_rows) ==
    [row_idx |-> row_idx, col_idx |-> col_idx, rust_rows |-> rust_rows]
RowIter(rust_rows, next_row_idx) ==
    [rust_rows |-> rust_rows, next_row_idx |-> next_row_idx]
ColumnIter(rust_rows, row_idx, next_col_idx) ==
    [rust_rows |-> rust_rows, row_idx |-> row_idx, next_col_idx |-> next_col_idx]

\* SqlQueryResponse
num_rows(self) == Len(self.rust_rows)

\* row_by_idx with the bound test off by one.
row_by_idx_off_by_one(self, row_idx) ==
    IF Len(self.rust_rows) >= row_idx
    THEN Some(Row(row_idx, self.rust_rows))
    ELSE None

row_by_idx(self, row_idx) ==
    IF Len(self.rust_rows) > row_idx
    THEN Some(Row(row_idx, self.rust_rows))
    ELSE None

iter_rows(self) == RowIter(self.rust_rows, 0)

\* __next__ that returns the row after the one it should.
RowIter_next_skips(slf) ==
    IF Len(slf.rust_rows) > slf.next_row_idx + 1
    THEN After(RowIter(slf.rust_rows, slf.next_row_idx + 1),
               Some(Row(slf.next_row_idx + 1, slf.rust_rows)))
    ELSE After(slf, None)

\* __next__ that takes the row it returns out of the iterator's buffer.
RowIter_next_drains(slf) ==
    IF Len(slf.rust_rows) > 0
    THEN After(RowIter(Tail(slf.rust_rows), slf.next_row_idx),
               Some(Row(0, slf.rust_rows)))
    ELSE After(slf, None)

\* RowIter::__next__
RowIter_next(slf) ==
    IF Len(slf.rust_rows) > slf.next_row_idx
    THEN After(RowIter(slf.rust_rows, slf.next_row_idx + 1),
               Some(Row(slf.next_row_idx, slf.rust_rows)))
    ELSE After(slf, None)

\* Column
get_rust_col(self) == At(At(self.rust_rows, self.row_idx).columns, self.col_idx)

PyObject(type, v) == [py |-> type, v |-> v]
to_object(rust_value) ==
    CASE rust_value.tag = "Null" -> PyObject("NoneType", 0)
      [] rust_value.tag \in {"Double", "Float"} -> PyObject("float", rust_value.v)
      [] rust_value.tag = "Varbinary" -> PyObject("list", rust_value.v)
      [] rust_value.tag = "String" -> PyObject("str", rust_value.v)
      [] rust_value.tag = "Boolean" -> PyObject("bool", rust_value.v)
      [] OTHER -> PyObject("int", rust_value.v)

Column_value(self) == to_object(get_rust_col(self).value)
Column_name(self) == get_rust_col(self).name

\* The native value names the data type of its variant; DataType::from maps
\* each native data type to the Python enum member of that name.
DataTypes ==
    {"Null", "Timestamp", "Double", "Float", "Varbinary", "String", "UInt64",
     "UInt32", "UInt16", "UInt8", "Int64", "Int32", "Int16", "Int8", "Boolean"}
RustValue_data_type(rust_value) == rust_value.tag
DataType_from(typ) == CHOOSE member \in DataTypes : member = typ
Column_data_type(self) == DataType_from(RustValue_data_type(get_rust_col(self).value))

\* column that finds the last column of that name instead of the first.
column_last_match(self, col_name) ==
    LET columns == At(self.rust_rows, self.row_idx).columns
        rposition[i \in 0..Len(columns)] ==
            IF i = 0 THEN None
            ELSE IF At(columns, i - 1).name = col_name THEN Some(i - 1)
            ELSE rposition[i - 1]
        col_idx == rposition[Len(columns)]
    IN  IF col_idx.some THEN Some(Column(self.row_idx, col_idx.v, self.rust_rows))
        ELSE None

\* Row
column(self, col_name) ==
    LET columns == At(self.rust_rows, self.row_idx).columns
        position[i \in 0..Len(columns)] ==
            IF i = Len(columns) THEN None
            ELSE IF At(columns, i).name = col_name THEN Some(i)
            ELSE position[i + 1]
        col_idx == position[0]
    IN  IF col_idx.some THEN Some(Column(self.row_idx, col_idx.v, self.rust_rows))
        ELSE None

\* column_by_idx that builds the Column with the two positions exchanged.
column_by_idx_swapped(self, col_idx) ==
    LET columns == At(self.rust_rows, self.row_idx).columns
    IN  IF col_idx >= Len(columns) THEN None
        ELSE Some(Column(col_idx, self.row_idx, self.rust_rows))

\* column_by_idx with the bound test off by one.
column_by_idx_off_by_one(self, col_idx) ==
    LET columns == At(self.rust_rows, self.row_idx).columns
    IN  IF col_idx > Len(columns) THEN None
        ELSE Some(Column(self.row_idx, col_idx, self.rust_rows))

column_by_idx(self, col_idx) ==
    LET columns == At(self.rust_rows, self.row_idx).columns
    IN  IF col_idx >= Len(columns) THEN None
        ELSE Some(Column(self.row_idx, col_idx, self.rust_rows))

num_cols(self) == Len(At(self.rust_rows, self.row_idx).columns)

\* iter_columns that always enumerates the first row.
iter_columns_first_row(self) == ColumnIter(self.rust_rows, 0, 0)

iter_columns(self) == ColumnIter(self.rust_rows, self.row_idx, 0)

\* ColumnIter::__next__
ColumnIter_next(slf) ==
    LET rust_row == At(slf.rust_rows, slf.row_idx)
    IN  IF slf.next_col_idx < Len(rust_row.columns)
        THEN After(ColumnIter(slf.rust_rows, slf.row_idx, slf.next_col_idx + 1),
                   Some(Column(slf.row_idx, slf.next_col_idx, slf.rust_rows)))
        ELSE After(slf, None)

\* The iterators the caller holds, and the names it looks columns up by.
IterIds == {"it1", "it2"}
LookupNames == ColumnNames \cup {"b"}

SqlQueryResponse_NumRows ==
    /\ call' = Call("SqlQueryResponse", "num_rows", Unit, Returned(num_rows(response)))
    /\ UNCHANGED <<builderVars, writeVars, clientVars, queryVars>>
SqlQueryResponse_RowByIdx ==
    \E row_idx \in 0..(MaxRows + 1) :
        /\ row' = row_by_idx(response, row_idx)
        /\ call' = Call("SqlQueryResponse", "row_by_idx", row_idx,
                        Returned(row_by_idx(response, row_idx)))
        /\ UNCHANGED <<builderVars, writeVars, clientVars, response,
                       row_iters, row_yields, colVars>>
SqlQueryResponse_IterRows ==
    \E h \in DOMAIN row_iters :
        /\ row_iters' = [row_iters EXCEPT ![h] = Some(iter_rows(response))]
        /\ row_yields' = [row_yields EXCEPT ![h] = <<>>]
        /\ call' = Call("SqlQueryResponse", "iter_rows", h, Returned(Unit))
        /\ UNCHANGED <<builderVars, writeVars, clientVars, response, row, colVars>>
RowIter_Next ==
    \E h \in DOMAIN row_iters :
        /\ row_iters[h].some
        /\ Len(row_yields[h]) <= Len(row_iters[h].v.rust_rows)
        /\ LET after == RowIter_next(row_iters[h].v)
           IN  /\ row_iters' = [row_iters EXCEPT ![h] = Some(after.self)]
               /\ row_yields' = [row_yields EXCEPT ![h] = Append(@, after.ret)]
               /\ row' = IF after.ret.some THEN after.ret ELSE row
               /\ call' = Call("RowIter", "__next__", h, Returned(after.ret))
        /\ UNCHANGED <<builderVars, writeVars, clientVars, response, colVars>>

NextRows ==
    \/ SqlQueryResponse_NumRows
    \/ SqlQueryResponse_RowByIdx
    \/ SqlQueryResponse_IterRows
    \/ RowIter_Next

Row_NumCols ==
    /\ row.some
    /\ call' = Call("Row", "num_cols", Unit, Returned(num_cols(row.v)))
    /\ UNCHANGED <<builderVars, writeVars, clientVars, queryVars>>
Row_Column ==
    /\ row.some
    /\ \E col_name \in LookupNames :
        call' = Call("Row", "column", col_name, Returned(column(row.v, col_name)))
    /\ UNCHANGED <<builderVars, writeVars, clientVars, queryVars>>
Row_ColumnByIdx ==
    /\ row.some
    /\ \E col_idx \in 0..(MaxCols + 1) :
        call' = Call("Row", "column_by_idx", col_idx,
                     Returned(column_by_idx(row.v, col_idx)))
    /\ UNCHANGED <<builderVars, writeVars, clientVars, queryVars>>
Row_IterColumns ==
    /\ row.some
    /\ \E h \in DOMAIN col_iters :
        /\ col_iters' = [col_iters EXCEPT ![h] = Some(iter_columns(row.v))]
        /\ col_yields' = [col_yields EXCEPT ![h] = [of |-> row.v, out |-> <<>>]]
        /\ call' = Call("Row", "iter_columns", h, Returned(Unit))
    /\ UNCHANGED <<builderVars, writeVars, clientVars, response, rowVars>>
ColumnIter_Next ==
    \E h \in DOMAIN col_iters :
        /\ col_iters[h].some
        /\ Len(col_yields[h].out) <= num_cols(col_iters[h].v)
        /\ LET after == ColumnIter_next(col_iters[h].v)
           IN  /\ col_iters' = [col_iters EXCEPT ![h] = Some(after.self)]
               /\ col_yields' = [col_yields EXCEPT ![h].out = Append(@, after.ret)]
               /\ call' = Call("ColumnIter", "__next__", h, Returned(after.ret))
        /\ UNCHANGED <<builderVars, writeVars, clientVars, response, rowVars>>

\* The Column the caller holds: the one its last call returned, or the one
\* its last call was made on.
HeldColumn ==
    IF call.obj = "Column" THEN Some(call.arg)
    ELSE IF \/ call.obj = "Row" /\ call.op \in {"column", "column_by_idx"}
            \/ call.obj = "ColumnIter" /\ call.op = "__next__"
         THEN call.ret.val
         ELSE None

Column_Value ==
    /\ HeldColumn.some
    /\ call' = Call("Column", "value", HeldColumn.v, Returned(Column_value(HeldColumn.v)))
    /\ UNCHANGED <<builderVars, writeVars, clientVars, queryVars>>
Column_DataType ==
    /\ HeldColumn.some
    /\ call' = Call("Column", "data_type", HeldColumn.v,
                    Returned(Column_data_type(HeldColumn.v)))
    /\ UNCHANGED <<builderVars, writeVars, clientVars, queryVars>>
Column_Name ==
    /\ HeldColumn.some
    /\ call' = Call("Column", "name", HeldColumn.v, Returned(Column_name(HeldColumn.v)))
    /\ UNCHANGED <<builderVars, writeVars, clientVars, queryVars>>

NextColumn ==
    \/ Column_Value
    \/ Column_DataType
    \/ Column_Name

NextCols ==
    \/ SqlQueryResponse_RowByIdx
    \/ Row_NumCols
    \/ Row_Column
    \/ Row_ColumnByIdx
    \/ Row_IterColumns
    \/ ColumnIter_Next

(***************************************************************************)
(* Initial states.  Every object is freshly constructed and nothing has    *)
(* been called.  Each specification below exercises one group of objects   *)
(* and starts the others from one fixed construction.                      *)
(***************************************************************************)
NoIters == [h \in IterIds |-> None]

BuildersAny ==
    /\ \E table \in Tables : point_builder = PointBuilder_new(table)
    /\ \E endpoint \in Endpoints, mode \in Modes : builder = Builder_new(endpoint, mode)
BuildersOne ==
    /\ point_builder = PointBuilder_new("cpu")
    /\ builder = Builder_new("127.0.0.1:8831", "Direct")
ClientOne ==
    /\ write_request = WriteRequest_new
    /\ client = Builder_build(Builder_new("127.0.0.1:8831", "Direct")).ret.val
    /\ futures = <<>>
    /\ native_log = <<>>
ViewsNone ==
    /\ row = None
    /\ row_iters = NoIters
    /\ row_yields = [h \in IterIds |-> <<>>]
    /\ col_iters = NoIters
    /\ col_yields = [h \in IterIds |-> [of |-> Row(0, <<>>), out |-> <<>>]]
QueryAny ==
    /\ \E query_resp \in NativeQueryResponses :
        response = SqlQueryResponse_from(query_resp)
    /\ ViewsNone
QueryOne ==
    /\ response = SqlQueryResponse_from([rows |-> <<>>, affected_rows |-> 0])
    /\ ViewsNone

\* A caller that holds one row iterator and one column iterator at a time.
OneIter == [h \in {"it1"} |-> None]
ViewsOne ==
    /\ row = None
    /\ row_iters = OneIter
    /\ row_yields = [h \in DOMAIN OneIter |-> <<>>]
    /\ col_iters = OneIter
    /\ col_yields = [h \in DOMAIN OneIter |-> [of |-> Row(0, <<>>), out |-> <<>>]]
\* Native responses of every size whose column names alternate, so that a
\* row of three columns has two of one name.
NativeViewResponses ==
    {[rows |-> RustRows([c \in 1..m |-> IF c % 2 = 1 THEN "a" ELSE "A"], n),
      affected_rows |-> 0] : m \in 0..MaxCols, n \in 0..MaxRows}
    \cup {[rows |-> <<>>, affected_rows |-> 3]}
QueryViews ==
    /\ \E query_resp \in NativeViewResponses :
        response = SqlQueryResponse_from(query_resp)
    /\ ViewsOne

Init == call = NoCall /\ BuildersAny /\ ClientOne /\ QueryAny
InitBuilders == call = NoCall /\ BuildersAny /\ ClientOne /\ QueryOne
InitQuery == call = NoCall /\ BuildersOne /\ ClientOne /\ QueryAny
InitOne == call = NoCall /\ BuildersOne /\ ClientOne /\ QueryOne
InitViews == call = NoCall /\ BuildersOne /\ ClientOne /\ QueryViews

Next ==
    \/ NextValue
    \/ NextPoint
    \/ NextBuilder
    \/ NextWrite
    \/ NextClient
    \/ NextRows
    \/ NextCols
    \/ NextColumn
Spec == Init /\ [][Next]_vars

\* The value constructors.
SpecValue == InitOne /\ [][NextValue]_vars
\* The point builder.
SpecPoint == InitBuilders /\ [][NextPoint]_vars
\* The two builder wrappers.
NextBuilders == NextPoint \/ NextBuilder
SpecBuilders == InitBuilders /\ [][NextBuilders]_vars
\* The write request.
SpecWrite == InitOne /\ [][NextWrite]_vars
\* The client calls.
SpecClient == InitOne /\ [][NextClient]_vars
\* A query response, its rows and row iterators.
SpecRows == InitQuery /\ [][NextRows]_vars
\* The rows of a query response, their columns and column iterators.
SpecCols == InitQuery /\ [][NextCols]_vars
\* The client builder and the configuration it is given.
SpecConfig == InitOne /\ [][NextBuilder]_vars
\* Every view of a query response: rows, columns and both iterators.
NextViews ==
    \/ SqlQueryResponse_NumRows
    \/ SqlQueryResponse_RowByIdx
    \/ SqlQueryResponse_IterRows
    \/ RowIter_Next
    \/ Row_NumCols
    \/ Row_Column
    \/ Row_ColumnByIdx
    \/ Row_IterColumns
    \/ ColumnIter_Next
    \/ Column_Value
    \/ Column_DataType
    \/ Column_Name
SpecViews == InitViews /\ [][NextViews]_vars

VariantNamed(ctor) ==
    CASE ctor = "null" -> "Null"
      [] ctor = "timestamp" -> "Timestamp"
      [] ctor = "double" -> "Double"
      [] ctor = "float" -> "Float"
      [] ctor = "string" -> "String"
      [] ctor = "varbinary" -> "Varbinary"
      [] ctor = "uint64" -> "UInt64"
      [] ctor = "uint32" -> "UInt32"
      [] ctor = "uint16" -> "UInt16"
      [] ctor = "uint8" -> "UInt8"
      [] ctor = "int64" -> "Int64"
      [] ctor = "int32" -> "Int32"
      [] ctor = "int16" -> "Int16"
      [] ctor = "int8" -> "Int8"
      [] ctor = "bool" -> "Boolean"

(***************************************************************************)
(* C1: every ValueBuilder constructor returns a Value whose variant has    *)
(* the constructor's name (uint16 an unsigned 16-bit Value, int16 a signed *)
(* 16-bit Value).                                                          *)
(***************************************************************************)
C1_ConstructorTag ==
    (call.obj = "ValueBuilder" /\ call.ret.ok)
        => call.ret.val.raw_val.tag = VariantNamed(call.op)

(***************************************************************************)
(* C2: in every reachable state the wrapped native builder of the          *)
(* PointBuilder and of the client Builder is Some.                         *)
(***************************************************************************)
C2_BuilderAlwaysSome ==
    point_builder.rust_builder.some /\ builder.rust_builder.some

PointSetters == {"set_table", "set_timestamp", "set_tag", "set_field"}

(***************************************************************************)
(* C3: no PointBuilder setter ever reports a failure, whatever preceded    *)
(* it; a failing build reports an error and returns no Point.              *)
(***************************************************************************)
C3_OnlyBuildFails ==
    call.obj = "PointBuilder" =>
        /\ call.op \in PointSetters => call.ret.ok
        /\ (call.op = "build" /\ ~call.ret.ok) =>
               DOMAIN call.ret = {"ok", "exc", "msg"}

(***************************************************************************)
(* C4: row_by_idx(idx) returns absence, and no error, exactly when         *)
(* idx >= num_rows(); otherwise it returns the Row at position idx over    *)
(* the rows of the response.                                               *)
(***************************************************************************)
C4_RowByIdx ==
    (call.obj = "SqlQueryResponse" /\ call.op = "row_by_idx") =>
        /\ call.ret.ok
        /\ ~call.ret.val.some <=> call.arg >= Len(response.rust_rows)
        /\ call.ret.val.some =>
               call.ret.val.v = [row_idx |-> call.arg, rust_rows |-> response.rust_rows]

C4_Witness ==
    /\ call.obj = "SqlQueryResponse" /\ call.op = "row_by_idx"
    /\ call.arg = 1
    /\ call.ret.val.some
    /\ Len(response.rust_rows) = 2

DatumAt(r, c) == response.rust_rows[r + 1].columns[c + 1]

(***************************************************************************)
(* C5: column_by_idx(idx) on a Row yields not-found exactly when           *)
(* idx >= num_cols(); otherwise the Column at (the row's position, idx),   *)
(* whose value and name are those of the datum at that position.           *)
(***************************************************************************)
C5_ColumnByIdx ==
    (call.obj = "Row" /\ call.op = "column_by_idx") =>
        /\ call.ret.ok
        /\ ~call.ret.val.some <=>
               call.arg >= Len(response.rust_rows[row.v.row_idx + 1].columns)
        /\ call.ret.val.some =>
               /\ call.ret.val.v = [row_idx |-> row.v.row_idx, col_idx |-> call.arg,
                                    rust_rows |-> response.rust_rows]
               /\ Column_name(call.ret.val.v) = DatumAt(row.v.row_idx, call.arg).name
               /\ Column_value(call.ret.val.v) = to_object(Cell(row.v.row_idx, call.arg))

C5_Witness ==
    /\ call.obj = "Row" /\ call.op = "column_by_idx"
    /\ call.ret.val.some
    /\ row.v.row_idx = 1 /\ call.arg = 0
    /\ Column_value(call.ret.val.v) = PyObject("NoneType", 0)

Positions(r, name) ==
    {c \in 0..(Len(response.rust_rows[r + 1].columns) - 1) : DatumAt(r, c).name = name}
Lowest(S) == CHOOSE c \in S : \A d \in S : c <= d

(***************************************************************************)
(* C6: column(name) on a Row returns the Column at the lowest position     *)
(* whose name is exactly name, and not-found exactly when the row has no   *)
(* column of that name.                                                    *)
(***************************************************************************)
C6_ColumnByName ==
    (call.obj = "Row" /\ call.op = "column") =>
        /\ call.ret.ok
        /\ ~call.ret.val.some <=> Positions(row.v.row_idx, call.arg) = {}
        /\ call.ret.val.some =>
               call.ret.val.v =
                   [row_idx |-> row.v.row_idx,
                    col_idx |-> Lowest(Positions(row.v.row_idx, call.arg)),
                    rust_rows |-> response.rust_rows]

\* The name is found at the second position, after a column whose name
\* differs from it only by case.
C6_Witness ==
    /\ call.obj = "Row" /\ call.op = "column" /\ call.arg = "a"
    /\ call.ret.val.some
    /\ call.ret.val.v.col_idx = 1
    /\ DatumAt(row.v.row_idx, 0).name = "A"

Smaller(a, b) == IF a <= b THEN a ELSE b

(***************************************************************************)
(* C7: the __next__ calls on a RowIter return the Rows at positions        *)
(* 0, 1, ..., num_rows()-1 in that order and then absence; every           *)
(* iter_rows() starts at 0, whatever the other iterators have done.        *)
(***************************************************************************)
C7_RowIteration ==
    \A h \in IterIds :
        row_iters[h].some =>
            LET n == Len(response.rust_rows)
                out == row_yields[h]
            IN  /\ Len(out) <= n + 1
                /\ \A k \in 1..Len(out) :
                       out[k] = IF k <= n
                                THEN Some([row_idx |-> k - 1,
                                           rust_rows |-> response.rust_rows])
                                ELSE None
                /\ row_iters[h].v.next_row_idx = Smaller(Len(out), n)

\* One iterator has been run to its end while the other, created over the
\* same response, has returned only its first row.
C7_Witness ==
    /\ Len(response.rust_rows) = 2
    /\ row_iters["it1"].some /\ row_iters["it2"].some
    /\ Len(row_yields["it1"]) = 3
    /\ Len(row_yields["it2"]) = 1
    /\ call.obj = "RowIter" /\ call.arg = "it2"

(***************************************************************************)
(* C8: the __next__ calls on a ColumnIter return the Columns of the Row    *)
(* it came from, at positions 0, 1, ..., num_cols()-1 in that order, and   *)
(* then absence; every iter_columns() starts at column 0.                  *)
(***************************************************************************)
C8_ColumnIteration ==
    \A h \in IterIds :
        col_iters[h].some =>
            LET of == col_yields[h].of
                n == Len(response.rust_rows[of.row_idx + 1].columns)
                out == col_yields[h].out
            IN  /\ Len(out) <= n + 1
                /\ \A k \in 1..Len(out) :
                       out[k] = IF k <= n
                                THEN Some([row_idx |-> of.row_idx, col_idx |-> k - 1,
                                           rust_rows |-> response.rust_rows])
                                ELSE None
                /\ col_iters[h].v.next_col_idx = Smaller(Len(out), n)

\* An iterator over the second row has been run to its end; another one,
\* over the first row, has returned one column.
C8_Witness ==
    /\ col_iters["it1"].some /\ col_iters["it2"].some
    /\ col_yields["it1"].of.row_idx = 1
    /\ Len(col_yields["it1"].out) = 3
    /\ col_yields["it2"].of.row_idx = 0
    /\ Len(col_yields["it2"].out) = 1

InvocationsOf(i) == {k \in DOMAIN native_log : native_log[k].fut = i}

Wraps(op, result, native) ==
    IF op = "write"
    THEN /\ get_success(result) = native.success
         /\ get_failed(result) = native.failed
    ELSE /\ result.rust_rows = native.rows
         /\ result.affected_rows = native.affected_rows

(***************************************************************************)
(* C9: a completed Client.write or Client.sql_query has invoked the native *)
(* operation exactly once; it completed with an exception carrying the     *)
(* failure's description if that invocation failed, and with the wrapper   *)
(* of exactly the native response if it succeeded.                         *)
(***************************************************************************)
C9_OneNativeCall ==
    \A i \in DOMAIN futures :
        IF ~futures[i].done THEN InvocationsOf(i) = {}
        ELSE /\ Cardinality(InvocationsOf(i)) = 1
             /\ \A k \in InvocationsOf(i) :
                    LET made == native_log[k].call
                        result == futures[i].result
                    IN  /\ made.op = futures[i].op
                        /\ result.ok = made.answer.ok
                        /\ made.answer.ok => Wraps(made.op, result.val, made.answer.val)
                        /\ ~made.answer.ok =>
                               /\ result.exc = "Exception"
                               /\ result.msg = made.answer.err.variant \o "(\""
                                                  \o made.answer.err.msg \o "\")"

\* A write that failed and a query that returned rows have both completed.
C9_Witness ==
    \E i, j \in DOMAIN futures :
        /\ futures[i].op = "write" /\ futures[i].done /\ ~futures[i].result.ok
        /\ futures[j].op = "sql_query" /\ futures[j].done /\ futures[j].result.ok
        /\ Len(futures[j].result.val.rust_rows) = 2

RustPoints(points) == [k \in 1..Len(points) |-> points[k].rust_point]

\* add_point called on the first element, then on each of the rest.
EachAdded(self, points) ==
    LET rest[k \in 1..(Len(points) + 1)] ==
            IF k > Len(points) THEN <<>> ELSE <<points[k].rust_point>> \o rest[k + 1]
        from[k \in 1..(Len(points) + 1)] ==
            IF k = 1 THEN self ELSE add_point(from[k - 1], points[k - 1])
    IN  [req |-> from[Len(points) + 1], appended |-> rest[1]]

(***************************************************************************)
(* C10: add_points(points) leaves the request as add_point on each element *)
(* in list order leaves it: the points it held, then the new ones in input *)
(* order.  C10_AddPoints states it of every step.                          *)
(***************************************************************************)
C10_AddPointsStep ==
    (call'.obj = "WriteRequest" /\ call'.op = "add_points") =>
        /\ write_request' = EachAdded(write_request, call'.arg).req
        /\ write_request'.rust_request =
               write_request.rust_request \o RustPoints(call'.arg)

C10_AddPoints == [][C10_AddPointsStep]_vars

\* Two different points were added in one call to a request that already
\* held one.
C10_Witness ==
    /\ call.obj = "WriteRequest" /\ call.op = "add_points"
    /\ Len(call.arg) = 2 /\ call.arg[1] # call.arg[2]
    /\ Len(write_request.rust_request) = 3

\* A handle that held a row iterator and now holds a different value was
\* either bound to a new iterator or advanced by its own __next__.
RowIterFrame(h) ==
    row_iters[h].some /\ row_iters'[h] # row_iters[h] =>
        \/ call'.obj = "SqlQueryResponse" /\ call'.op = "iter_rows" /\ call'.arg = h
        \/ /\ call'.obj = "RowIter" /\ call'.op = "__next__" /\ call'.arg = h
           /\ row_iters'[h].v.rust_rows = row_iters[h].v.rust_rows
ColumnIterFrame(h) ==
    col_iters[h].some /\ col_iters'[h] # col_iters[h] =>
        \/ call'.obj = "Row" /\ call'.op = "iter_columns" /\ call'.arg = h
        \/ /\ call'.obj = "ColumnIter" /\ call'.op = "__next__" /\ call'.arg = h
           /\ col_iters'[h].v.rust_rows = col_iters[h].v.rust_rows
           /\ col_iters'[h].v.row_idx = col_iters[h].v.row_idx
\* Every view the caller holds is over the rows of the response.
SharesBuffer ==
    /\ row.some => row.v.rust_rows = response.rust_rows
    /\ HeldColumn.some => HeldColumn.v.rust_rows = response.rust_rows
    /\ \A h \in DOMAIN row_iters :
        row_iters[h].some => row_iters[h].v.rust_rows = response.rust_rows
    /\ \A h \in DOMAIN col_iters :
        col_iters[h].some => col_iters[h].v.rust_rows = response.rust_rows

(***************************************************************************)
(* C11: after a SqlQueryResponse is constructed, no operation on it or on   *)
(* a Row, Column, RowIter or ColumnIter derived from it changes the shared  *)
(* row buffer or affected_rows: the response stays as it was, every view    *)
(* is still over the same rows, and an existing iterator changes only by    *)
(* its own __next__, which changes only its next position.                  *)
(***************************************************************************)
C11_ViewsStep ==
    /\ response' = response
    /\ SharesBuffer'
    /\ \A h \in DOMAIN row_iters : RowIterFrame(h)
    /\ \A h \in DOMAIN col_iters : ColumnIterFrame(h)
C11_NoViewMutates == [][C11_ViewsStep]_vars
\* A column's accessor has been called while a row iterator and a column
\* iterator over a response with rows have both advanced.
C11_Witness ==
    /\ call.obj = "Column" /\ call.op \in {"value", "data_type", "name"}
    /\ response.rust_rows # <<>>
    /\ row_iters["it1"].some /\ row_iters["it1"].v.next_row_idx > 0
    /\ col_iters["it1"].some /\ col_iters["it1"].v.next_col_idx > 0

\* The values of the options in a set that hold one.
Values(options) == {o.v : o \in {x \in options : x.some}}
Elems(seq) == {seq[k] : k \in DOMAIN seq}
\* The views that exist: the ones the caller holds, the ones the iterators
\* have returned, and the one the last call returned.
ExistingRows ==
    Values({row})
    \cup UNION {Values(Elems(row_yields[h])) : h \in DOMAIN row_yields}
    \cup {col_yields[h].of : h \in {g \in DOMAIN col_iters : col_iters[g].some}}
ExistingColumnIters == Values({col_iters[h] : h \in DOMAIN col_iters})
ExistingColumns ==
    Values({HeldColumn})
    \cup UNION {Values(Elems(col_yields[h].out)) : h \in DOMAIN col_yields}
RowInRange(v) == v.row_idx < Len(v.rust_rows)
ColumnInRange(v) ==
    /\ RowInRange(v)
    /\ v.col_idx < Len(At(v.rust_rows, v.row_idx).columns)

(***************************************************************************)
(* C12: in every state reachable through the public operations, every      *)
(* existing Row and ColumnIter has row_idx below the number of rows of its *)
(* buffer, and every existing Column has row_idx below the number of rows  *)
(* and col_idx below the number of columns of that row, so the unchecked   *)
(* indexing of the views stays in range.                                   *)
(***************************************************************************)
C12_IndicesInRange ==
    /\ \A v \in ExistingRows : RowInRange(v)
    /\ \A v \in ExistingColumnIters : RowInRange(v)
    /\ \A v \in ExistingColumns : ColumnInRange(v)
\* An accessor has indexed the last column of the last row of a response of
\* several rows and columns, while a column iterator is on a later row.
C12_Witness ==
    /\ call.obj = "Column" /\ call.op \in {"value", "data_type", "name"}
    /\ call.arg.row_idx > 0 /\ call.arg.row_idx = Len(call.arg.rust_rows) - 1
    /\ call.arg.col_idx > 0
    /\ call.arg.col_idx = Len(At(call.arg.rust_rows, call.arg.row_idx).columns) - 1
    /\ \E v \in ExistingColumnIters : v.row_idx > 0
    /\ \E v \in ExistingRows : v.row_idx > 0

\* A duration of exactly ms milliseconds.
IsMillis(d, ms) ==
    /\ d.nanos \in 0..999999999 /\ d.nanos % 1000000 = 0
    /\ d.secs * 1000 + d.nanos \div 1000000 = ms
\* The native configuration a Builder holds after set_rpc_config(conf).
ConvertedFrom(conf) ==
    /\ call.obj = "Builder" /\ call.op = "set_rpc_config"
    /\ call.arg = conf /\ call.ret.ok

(***************************************************************************)
(* C13: converting an RpcConfig to the native configuration maps           *)
(* thread_num > 0 to a set thread count of that value and thread_num <= 0  *)
(* to an unset one, and every *_ms field to a duration of that many        *)
(* milliseconds; converting the native configuration back gives the same   *)
(* RpcConfig when thread_num > 0, and the same with thread_num 0 when      *)
(* thread_num <= 0.                                                        *)
(***************************************************************************)
C13_RpcConfigConversion ==
    \A conf \in RpcConfigs :
        ConvertedFrom(conf) =>
            LET native == builder.rust_builder.v.rpc_config
            IN  /\ conf.thread_num > 0 => native.thread_num = Some(conf.thread_num)
                /\ conf.thread_num <= 0 => native.thread_num = None
                /\ IsMillis(native.keep_alive_interval, conf.keep_alive_interval_ms)
                /\ IsMillis(native.keep_alive_timeout, conf.keep_alive_timeout_ms)
                /\ IsMillis(native.default_write_timeout, conf.default_write_timeout_ms)
                /\ IsMillis(native.default_sql_query_timeout,
                            conf.default_sql_query_timeout_ms)
                /\ IsMillis(native.connect_timeout, conf.connect_timeout_ms)
                /\ conf.thread_num > 0 => RpcConfig_from(native) = conf
                /\ conf.thread_num <= 0 =>
                       RpcConfig_from(native) = [conf EXCEPT !.thread_num = 0]
\* A configuration with a negative thread_num and a timeout that is not a
\* whole number of seconds has been converted.
C13_Witness ==
    \E conf \in RpcConfigs :
        /\ ConvertedFrom(conf)
        /\ conf.thread_num < 0
        /\ conf.connect_timeout_ms % 1000 # 0
        /\ RpcConfig_from(builder.rust_builder.v.rpc_config) # conf
====
